---- MODULE Spec2Model ----
(***************************************************************************)
(* Model of btb/tuning/gp.py: the GP, GPEi, GPMatern52Ei and GPEiVelocity  *)
(* tuners.  One tuner instance is modelled: its configuration (variant,    *)
(* r_minimum), its fields (X, y, gp, POU) and the observable result of the *)
(* last call (out).                                                        *)
(*                                                                         *)
(* Numbers.  Scores (y, predicted means, stdevs) are integers counting     *)
(* hundredths: 50 is 0.50.  A float that can be NaN or infinite is a       *)
(* record [k, v] with k in {"num", "nan", "pinf", "ninf"}.  Values in      *)
(* [0, 1] that are compared with a random draw are fixed-point integers    *)
(* with FixOne standing for 1.0.                                           *)
(***************************************************************************)
EXTENDS Integers, Sequences, FiniteSets, TLC

VARIABLES variant, r_minimum, X, y, gp, POU, lastFit, out, acq

vars == <<variant, r_minimum, X, y, gp, POU, lastFit, out, acq>>

(***************************************************************************)
(* Bounds of the model.                                                    *)
(***************************************************************************)
\* longest observation history handed to fit in the lifecycle specification
MaxObs == 2
\* largest number of candidates handed to predict
MaxCand == 2
\* r_minimum ranges over 1..MaxRMin
MaxRMin == 2

(***************************************************************************)
(* Program constants.                                                      *)
(***************************************************************************)
MULTIPLIER == -100
N_BEST_Y == 5

Variants == {"GP", "GPEi", "GPMatern52Ei", "GPEiVelocity"}

\* fixed-point representation of 1.0
FixOne == 10 ^ 4

\* the scores handed to fit and the means the engine predicts, in hundredths
Scores == {0, 1}
\* every configuration vector is the same abstract point: X is told apart by
\* its length, the history as a whole by X and y together
Configs == {1}
\* predicted standard deviations (sklearn never returns a negative one)
Stdevs == {0, 1, 2}
\* the values np.random.random() is drawn from: 0.0, 0.5 and 0.9999
Draws == {0, FixOne \div 2, FixOne - 1}
NoDraw == -1

SeqsOf(S, lo, hi) == UNION {[1 .. k -> S] : k \in lo .. hi}

Range(s) == {s[i] : i \in 1 .. Len(s)}

RECURSIVE SeqSum(_)
SeqSum(s) == IF s = <<>> THEN 0 ELSE s[1] + SeqSum(Tail(s))

\* np.max of a non-empty array
SeqMax(s) == CHOOSE m \in Range(s) : \A e \in Range(s) : e <= m

(***************************************************************************)
(* IEEE floats as far as compute_ei needs them.                            *)
(***************************************************************************)
Num(v) == [k |-> "num", v |-> v]
NaN == [k |-> "nan", v |-> 0]
PInf == [k |-> "pinf", v |-> 0]
NInf == [k |-> "ninf", v |-> 0]

FSign(a) ==
    CASE a.k = "pinf" -> 1
      [] a.k = "ninf" -> -1
      [] OTHER -> IF a.v > 0 THEN 1 ELSE IF a.v < 0 THEN -1 ELSE 0

\* a * b: NaN is absorbing, inf * 0 is NaN
FMul(a, b) ==
    IF a.k = "nan" \/ b.k = "nan" THEN NaN
    ELSE IF a.k = "num" /\ b.k = "num" THEN Num(a.v * b.v)
    ELSE IF FSign(a) * FSign(b) = 0 THEN NaN
    ELSE IF FSign(a) * FSign(b) > 0 THEN PInf ELSE NInf

\* a + b: NaN is absorbing, inf + (-inf) is NaN
FAdd(a, b) ==
    IF a.k = "nan" \/ b.k = "nan" THEN NaN
    ELSE IF a.k = "num" /\ b.k = "num" THEN Num(a.v + b.v)
    ELSE IF a.k = "num" THEN b
    ELSE IF b.k = "num" THEN a
    ELSE IF a.k = b.k THEN a ELSE NaN

\* a / b for numpy floats (a warning, never an exception): x/0 is +-inf, 0/0 is
\* NaN.  The quotient is returned in halves (v = 2a/b), exact for b in Stdevs.
FDiv(a, b) ==
    IF b = 0
    THEN IF a > 0 THEN PInf ELSE IF a < 0 THEN NInf ELSE NaN
    ELSE Num((2 * a) \div b)

\* a < b for floats: every comparison with NaN is false
FLess(a, b) ==
    IF a.k = "nan" \/ b.k = "nan" THEN FALSE
    ELSE IF a.k = "num" /\ b.k = "num" THEN a.v < b.v
    ELSE IF a.k = b.k THEN FALSE
    ELSE a.k = "ninf" \/ b.k = "pinf"

\* scipy.stats.norm.cdf at z = z2/2, times FixOne (four decimals)
PhiTab(z2) ==
    LET lower(h) == CASE h >= 8 -> 0
                      [] h = 7 -> 2
                      [] h = 6 -> 13
                      [] h = 5 -> 62
                      [] h = 4 -> 228
                      [] h = 3 -> 668
                      [] h = 2 -> 1587
                      [] h = 1 -> 3085
                      [] OTHER -> 5000
    IN IF z2 <= 0 THEN lower(-z2) ELSE FixOne - lower(z2)

\* scipy.stats.norm.pdf at z = z2/2, times FixOne (four decimals)
PdfTab(z2) ==
    LET h == IF z2 < 0 THEN -z2 ELSE z2
    IN CASE h >= 9 -> 0
         [] h = 8 -> 1
         [] h = 7 -> 9
         [] h = 6 -> 44
         [] h = 5 -> 175
         [] h = 4 -> 540
         [] h = 3 -> 1295
         [] h = 2 -> 2420
         [] h = 1 -> 3521
         [] OTHER -> 3989

\* Phi = norm.cdf on a float in halves; the result is in units of 1/FixOne
Phi(z) ==
    CASE z.k = "nan" -> NaN
      [] z.k = "pinf" -> Num(FixOne)
      [] z.k = "ninf" -> Num(0)
      [] OTHER -> Num(PhiTab(z.v))

\* N = norm.pdf on a float in halves; the result is in units of 1/FixOne
N(z) ==
    CASE z.k = "nan" -> NaN
      [] z.k = "num" -> Num(PdfTab(z.v))
      [] OTHER -> Num(0)

(***************************************************************************)
(* GPEi.compute_ei for one candidate: z = (mu - t) / sigma,                *)
(* ei = sigma * (z * Phi(z) + N(z)).  z is in halves and Phi, N in units   *)
(* of 1/FixOne, so N(z) is doubled before the sum and the result is the    *)
(* expected improvement in units of 1/(2 * FixOne) hundredths.             *)
(***************************************************************************)
compute_ei(mu, sigma, t) ==
    LET z == FDiv(mu - t, sigma)
        ei == FMul(Num(sigma), FAdd(FMul(z, Phi(z)), FMul(Num(2), N(z))))
    IN ei

\* np.argmax: the first NaN if there is one, else the first maximum
ArgMax(s) ==
    LET nans == {i \in 1 .. Len(s) : s[i].k = "nan"}
        tops == {i \in 1 .. Len(s) : \A j \in 1 .. Len(s) : ~FLess(s[i], s[j])}
        pick(S) == CHOOSE i \in S : \A j \in S : i <= j
    IN IF nans # {} THEN pick(nans) ELSE pick(tops)

(***************************************************************************)
(* The probability of uniform selection.  self.POU is                      *)
(*   "unset" : the attribute does not exist (no fit has assigned it)       *)
(*   "int0"  : the literal 0 of line 138                                   *)
(*   "nan"   : NaN                                                         *)
(*   "exp"   : np.exp(num / den), kept exact as the exponent's fraction    *)
(***************************************************************************)
PUnset == [k |-> "unset", num |-> 0, den |-> 1]
PZero == [k |-> "int0", num |-> 0, den |-> 1]
PNaN == [k |-> "nan", num |-> 0, den |-> 1]
PExp(num, den) == [k |-> "exp", num |-> num, den |-> den]

\* sorted(y): ascending insertion sort
RECURSIVE Insert(_, _)
Insert(e, s) ==
    IF s = <<>> THEN <<e>>
    ELSE IF e <= s[1] THEN <<e>> \o s
    ELSE <<s[1]>> \o Insert(e, Tail(s))

RECURSIVE sorted(_)
sorted(s) == IF s = <<>> THEN <<>> ELSE Insert(s[1], sorted(Tail(s)))

\* s[-n:] for n >= 1: the last n elements, all of s when it is shorter
LastN(s, n) == IF Len(s) <= n THEN s ELSE SubSeq(s, Len(s) - n + 1, Len(s))

top_y(yin) == LastN(sorted(yin), N_BEST_Y)

velocities(top) == [i \in 1 .. Len(top) - 1 |-> top[i + 1] - top[i]]

\* exp_mean with a fault: the sum of the velocities is divided by the number
\* of scores, not by the number of velocities
exp_mean_over_scores(v) ==
    IF Len(v) = 0 THEN PNaN ELSE PExp(MULTIPLIER * SeqSum(v), 100 * (Len(v) + 1))

\* np.exp(MULTIPLIER * np.mean(v)): np.mean of an empty list is NaN (a
\* warning, not an exception) and np.exp(NaN) is NaN.  Scores are hundredths,
\* so the mean is SeqSum(v) / (100 * Len(v)).
exp_mean(v) ==
    IF Len(v) = 0 THEN PNaN ELSE PExp(MULTIPLIER * SeqSum(v), 100 * Len(v))

\* FixOne * exp(-r / d) for 0 <= r < d: the alternating Taylor series, summed
\* from term number k on (term is the k-th term's magnitude, sign its sign)
RECURSIVE ExpTaylor(_, _, _, _, _)
ExpTaylor(r, d, k, term, sign) ==
    IF term = 0 THEN 0
    ELSE sign * term + ExpTaylor(r, d, k + 1, (term * r) \div (d * k), -sign)

\* FixOne * exp(-n) for an integer n >= 0, by repeated multiplication by 1/e
RECURSIVE ExpInt(_)
ExpInt(n) == IF n = 0 THEN FixOne ELSE (ExpInt(n - 1) * 3679) \div FixOne

\* the fixed-point value of exp(num / den) for num <= 0 < den
ExpFix(num, den) ==
    LET a == -num
    IN (ExpInt(a \div den) * ExpTaylor(a % den, den, 1, FixOne, 1)) \div FixOne

\* u < POU, as Python compares a float in [0, 1) with self.POU
RandomLess(u, pou) ==
    CASE pou.k = "int0" -> FALSE
      [] pou.k = "nan" -> FALSE
      [] pou.k = "exp" ->
           IF pou.num > 0 THEN TRUE
           ELSE IF u = 0 THEN pou.num > -745 * pou.den
           ELSE u < ExpFix(pou.num, pou.den)
      [] OTHER -> FALSE

(***************************************************************************)
(* The tuner object.  self = [X, y, gp, POU, exc]: the fields fit assigns  *)
(* and exc, the exception the call in progress has raised ("none" if it    *)
(* returns).  gp.kernel = "none" says the attribute self.gp does not exist.*)
(***************************************************************************)
NoGP == [kernel |-> "none", fitted |-> FALSE, X |-> <<>>, y |-> <<>>]

\* GaussianProcessRegressor(kernel=..., normalize_y=True): a new, unfitted engine
GaussianProcessRegressor(kernel) ==
    [kernel |-> kernel, fitted |-> FALSE, X |-> <<>>, y |-> <<>>]

\* the engine's fit: it validates its input (X and y of different lengths
\* raise ValueError) and otherwise is trained on exactly (Xin, yin)
Regressor_fit(g, Xin, yin) ==
    IF Len(Xin) # Len(yin)
    THEN [g |-> g, exc |-> "ValueError"]
    ELSE [g |-> [g EXCEPT !.fitted = TRUE, !.X = Xin, !.y = yin], exc |-> "none"]

\* BaseTuner.fit: stores X and y
BaseTuner_fit(self, Xin, yin) == [self EXCEPT !.X = Xin, !.y = yin]

\* GP.__init__, GPMatern52Ei.__init__: the tuner after construction
Tuner_init(v) ==
    [X |-> <<>>, y |-> <<>>,
     gp |-> IF v = "GPMatern52Ei" THEN GaussianProcessRegressor("Matern52") ELSE NoGP,
     POU |-> PUnset, exc |-> "none"]

\* GP.fit with a fault: an engine that is already trained is kept, not rebuilt
GP_fit_keeps_engine(self, Xin, yin) ==
    LET s1 == BaseTuner_fit(self, Xin, yin)
        r == Regressor_fit(GaussianProcessRegressor("default"), Xin, yin)
    IN IF Len(Xin) < r_minimum \/ self.gp.fitted THEN s1
       ELSE [s1 EXCEPT !.gp = r.g, !.exc = r.exc]

\* GP.fit
GP_fit(self, Xin, yin) ==
    LET s1 == BaseTuner_fit(self, Xin, yin)
        r == Regressor_fit(GaussianProcessRegressor("default"), Xin, yin)
    IN IF Len(Xin) < r_minimum THEN s1
       ELSE [s1 EXCEPT !.gp = r.g, !.exc = r.exc]

\* GPEiVelocity.fit
GPEiVelocity_fit(self, Xin, yin) ==
    LET s1 == GP_fit(self, Xin, yin)
    IN IF s1.exc # "none" THEN s1
       ELSE IF Len(yin) >= r_minimum
       THEN [s1 EXCEPT !.POU = exp_mean(velocities(top_y(yin)))]
       ELSE [s1 EXCEPT !.POU = PZero]

\* fit, dispatched on the tuner's class
Tuner_fit(self, Xin, yin) ==
    IF variant = "GPEiVelocity" THEN GPEiVelocity_fit(self, Xin, yin)
    ELSE GP_fit(self, Xin, yin)

(***************************************************************************)
(* predict.  What it returns is kept as its shape: path ("uniform" or      *)
(* "surrogate"), ndim, cols, the number n of candidates, and whether the   *)
(* regression engine was queried.                                          *)
(***************************************************************************)
NoResult == [path |-> "none", ndim |-> 0, cols |-> 0, n |-> 0, queried |-> FALSE]

\* Uniform(self.tunables).predict(X): one random score per candidate and no
\* stdev column, as a 1-D array or as an (n, 1) array
Uniform_predict(n, ndim) ==
    [path |-> "uniform", ndim |-> ndim, cols |-> 1, n |-> n, queried |-> FALSE]

\* self.gp.predict(X, return_std=True) and the hstack: an (n, 2) array
Regressor_predict(g, n) ==
    [path |-> "surrogate", ndim |-> 2, cols |-> 2, n |-> n, queried |-> TRUE]

\* GP.predict with a fault: the guard asks whether an engine has been trained,
\* not whether the stored history is long enough
GP_predict_engine_guard(self, n, ndim) ==
    IF ~self.gp.fitted
    THEN [self |-> self, exc |-> "none", res |-> Uniform_predict(n, ndim)]
    ELSE [self |-> self, exc |-> "none", res |-> Regressor_predict(self.gp, n)]

\* GP.predict with a fault: the candidates are stored as the history's X
GP_predict_stores(self, n, ndim) ==
    LET s1 == [self EXCEPT !.X = [i \in 1 .. n |-> 1]]
    IN IF Len(self.X) < r_minimum
       THEN [self |-> s1, exc |-> "none", res |-> Uniform_predict(n, ndim)]
       ELSE IF self.gp.kernel = "none"
       THEN [self |-> s1, exc |-> "AttributeError", res |-> NoResult]
       ELSE [self |-> s1, exc |-> "none", res |-> Regressor_predict(self.gp, n)]

\* GP.predict
GP_predict(self, n, ndim) ==
    IF Len(self.X) < r_minimum
    THEN [self |-> self, exc |-> "none", res |-> Uniform_predict(n, ndim)]
    ELSE IF self.gp.kernel = "none"
    THEN [self |-> self, exc |-> "AttributeError", res |-> NoResult]
    ELSE [self |-> self, exc |-> "none", res |-> Regressor_predict(self.gp, n)]

\* GPEiVelocity.predict, u the value of np.random.random()
GPEiVelocity_predict(self, n, ndim, u) ==
    IF self.POU.k = "unset"
    THEN [self |-> self, exc |-> "AttributeError", res |-> NoResult]
    ELSE IF RandomLess(u, self.POU)
    THEN [self |-> self, exc |-> "none", res |-> Uniform_predict(n, ndim)]
    ELSE GP_predict(self, n, ndim)

\* predict, dispatched on the tuner's class
Tuner_predict(self, n, ndim, u) ==
    IF variant = "GPEiVelocity" THEN GPEiVelocity_predict(self, n, ndim, u)
    ELSE GP_predict(self, n, ndim)

(***************************************************************************)
(* _acquire.  predictions = [ndim, cols, mu, sigma]: mu the first column   *)
(* (or the 1-D array), sigma the second column, <<>> when there is none.   *)
(* The result holds the 0-based index, the ei array and the best score     *)
(* that were computed (<<>> and -1 when they were not).                    *)
(***************************************************************************)
AcquireRaises(self, e) ==
    [self |-> self, exc |-> e, idx |-> -1, ei |-> <<>>, ybest |-> -1]

\* GP._acquire: np.argmax(predictions[:, 0]); a 1-D array has no second axis
GP_acquire(self, p) ==
    IF p.ndim < 2 THEN AcquireRaises(self, "IndexError")
    ELSE [self |-> self, exc |-> "none",
          idx |-> ArgMax([i \in 1 .. Len(p.mu) |-> Num(p.mu[i])]) - 1,
          ei |-> <<>>, ybest |-> -1]

\* GPEi._acquire
GPEi_acquire(self, p) ==
    IF p.ndim <= 1 \/ (p.ndim = 2 /\ p.cols = 1) THEN GP_acquire(self, p)
    ELSE IF self.y = <<>> THEN AcquireRaises(self, "ValueError")
    ELSE LET y_best == SeqMax(self.y)
             ei == [i \in 1 .. Len(p.mu) |-> compute_ei(p.mu[i], p.sigma[i], y_best)]
         IN [self |-> self, exc |-> "none", idx |-> ArgMax(ei) - 1,
             ei |-> ei, ybest |-> y_best]

\* _acquire, dispatched on the tuner's class
Tuner_acquire(self, p) ==
    IF variant = "GP" THEN GP_acquire(self, p) ELSE GPEi_acquire(self, p)

\* the arrays predict can return for n candidates
SurrogatePredictions(n) ==
    {[ndim |-> 2, cols |-> 2, mu |-> m, sigma |-> s] :
        m \in [1 .. n -> Scores], s \in [1 .. n -> Stdevs]}

FallbackPredictions(n, ndim) ==
    {[ndim |-> ndim, cols |-> 1, mu |-> m, sigma |-> <<>>] : m \in [1 .. n -> Draws]}

PredictionsLike(res) ==
    IF res.path = "surrogate" THEN SurrogatePredictions(res.n)
    ELSE FallbackPredictions(res.n, res.ndim)

AllPredictions ==
    UNION {SurrogatePredictions(n) \cup FallbackPredictions(n, 1)
               \cup FallbackPredictions(n, 2) : n \in 1 .. MaxCand}

(***************************************************************************)
(* State machine of one tuner: construction, then any sequence of fit,     *)
(* predict and _acquire calls.                                             *)
(***************************************************************************)
Self == [X |-> X, y |-> y, gp |-> gp, POU |-> POU, exc |-> "none"]

OutInit ==
    [op |-> "init", exc |-> "none", nX |-> 0, nY |-> 0, u |-> NoDraw,
     res |-> NoResult, idx |-> -1, ybest |-> -1]

AcqIdle == [phase |-> "idle", preds |-> <<>>, exc |-> "none", idx |-> -1,
            ei |-> <<>>, ybest |-> -1]

Store(s) ==
    /\ X' = s.X
    /\ y' = s.y
    /\ gp' = s.gp
    /\ POU' = s.POU

Init ==
    /\ variant \in Variants
    /\ r_minimum \in 1 .. MaxRMin
    /\ X = Tuner_init(variant).X
    /\ y = Tuner_init(variant).y
    /\ gp = Tuner_init(variant).gp
    /\ POU = Tuner_init(variant).POU
    /\ lastFit = "none"
    /\ out = OutInit
    /\ acq = AcqIdle

FitCall(Xin, yin) ==
    LET s == Tuner_fit(Self, Xin, yin)
    IN /\ Store(s)
       /\ lastFit' = IF s.exc = "none" THEN "ok" ELSE s.exc
       /\ out' = [OutInit EXCEPT !.op = "fit", !.exc = s.exc,
                                 !.nX = Len(Xin), !.nY = Len(yin)]
       /\ UNCHANGED <<variant, r_minimum, acq>>

Fit ==
    \E Xin \in SeqsOf(Configs, 0, MaxObs), yin \in SeqsOf(Scores, 0, MaxObs) :
        FitCall(Xin, yin)

Predict ==
    \E n \in 1 .. MaxCand, ndim \in {1, 2},
       u \in IF variant = "GPEiVelocity" THEN Draws ELSE {NoDraw} :
        LET r == Tuner_predict(Self, n, ndim, u)
        IN /\ Store(r.self)
           /\ out' = [OutInit EXCEPT !.op = "predict", !.exc = r.exc, !.u = u,
                                     !.res = r.res]
           /\ UNCHANGED <<variant, r_minimum, lastFit, acq>>

\* _acquire on the array the last predict returned, as propose calls it
Acquire ==
    /\ out.op = "predict"
    /\ out.exc = "none"
    /\ \E p \in PredictionsLike(out.res) :
        LET r == Tuner_acquire(Self, p)
        IN /\ Store(r.self)
           /\ out' = [OutInit EXCEPT !.op = "acquire", !.exc = r.exc,
                                     !.res = out.res, !.idx = r.idx,
                                     !.ybest = r.ybest]
           /\ UNCHANGED <<variant, r_minimum, lastFit, acq>>

Next == Fit \/ Predict \/ Acquire

Spec == Init /\ [][Next]_vars

(***************************************************************************)
(* _acquire as a function of its argument: a tuner that has been fitted    *)
(* once on a well-formed history is handed every array shape.              *)
(***************************************************************************)
InitSelect ==
    /\ variant \in Variants
    /\ r_minimum \in 1 .. MaxRMin
    /\ \E Xin \in SeqsOf(Configs, 1, MaxObs), yin \in SeqsOf(Scores, 1, MaxObs) :
        LET s == Tuner_fit(Tuner_init(variant), Xin, yin)
        IN /\ Len(Xin) = Len(yin)
           /\ X = s.X
           /\ y = s.y
           /\ gp = s.gp
           /\ POU = s.POU
           /\ out = [OutInit EXCEPT !.op = "fit", !.nX = Len(Xin), !.nY = Len(yin)]
    /\ lastFit = "ok"
    /\ acq \in {[AcqIdle EXCEPT !.phase = "args", !.preds = p] : p \in AllPredictions}

Select ==
    /\ acq.phase = "args"
    /\ LET r == Tuner_acquire(Self, acq.preds)
       IN /\ Store(r.self)
          /\ acq' = [acq EXCEPT !.phase = "done", !.exc = r.exc, !.idx = r.idx,
                                !.ei = r.ei, !.ybest = r.ybest]
          /\ UNCHANGED <<variant, r_minimum, lastFit, out>>

SpecSelect == InitSelect /\ [][Select]_vars

(***************************************************************************)
(* GPEiVelocity.fit as a function of y: the first fit of a new velocity    *)
(* tuner, on histories long enough for N_BEST_Y to cut them.               *)
(***************************************************************************)
VelScores == {10, 12, 50, 51, 89, 90}

VelInputs == SeqsOf(VelScores, 1, N_BEST_Y + 1)

InitPOU ==
    /\ variant = "GPEiVelocity"
    /\ r_minimum \in 1 .. MaxRMin
    /\ X = Tuner_init(variant).X
    /\ y = Tuner_init(variant).y
    /\ gp = Tuner_init(variant).gp
    /\ POU = Tuner_init(variant).POU
    /\ lastFit = "none"
    /\ out = OutInit
    /\ acq = AcqIdle

FirstFit ==
    /\ lastFit = "none"
    /\ \E yin \in VelInputs : FitCall([i \in 1 .. Len(yin) |-> 1], yin)

SpecPOU == InitPOU /\ [][FirstFit]_vars

(***************************************************************************)
(* Properties.                                                             *)
(***************************************************************************)
IsVelocity == variant = "GPEiVelocity"

\* the last fit returned and was handed as many scores as configurations
LastFitWellFormed == lastFit = "ok" /\ Len(X) = Len(y)

\* C1: for every variant, once the most recent fit has received fewer than
\* r_minimum observations, a predict returns the uniform selector's output
\* (one score per candidate, no stdev column) and does not query the
\* regression engine, whatever an earlier fit has trained.
C1_DeficientPredictIsUniform ==
    (out.op = "predict" /\ lastFit # "none" /\ Len(X) < r_minimum)
        => /\ out.exc = "none"
           /\ out.res.path = "uniform"
           /\ out.res.cols = 1
           /\ ~out.res.queried

\* C1: a predict after a deficient fit, with a surrogate trained by an earlier fit
C1_Witness ==
    /\ out.op = "predict"
    /\ lastFit = "ok"
    /\ Len(X) < r_minimum
    /\ gp.fitted
    /\ out.res.path = "uniform"

\* a POU that is a number in [0, 1]: the literal 0, or exp of an exponent <= 0
POUInUnitInterval(p) == p.k = "int0" \/ (p.k = "exp" /\ p.num <= 0 /\ p.den > 0)

\* C2: in the velocity variant, after a fit with at least r_minimum
\* observations the stored POU is a defined number with 0 <= POU <= 1, a fit
\* with a single observation under r_minimum = 1 included.
C2_POUInUnitInterval ==
    (IsVelocity /\ LastFitWellFormed /\ Len(y) >= r_minimum)
        => POUInUnitInterval(POU)

\* C3: in the expected-improvement computation a candidate whose predicted
\* stdev is 0 gets the EI value 0, and no NaN or infinity is among the values
\* handed to the argmax.
C3_ZeroSigmaGivesZeroEI ==
    (acq.phase = "done" /\ acq.ei # <<>>)
        => \A i \in 1 .. Len(acq.ei) :
              /\ acq.ei[i].k = "num"
              /\ acq.preds.sigma[i] = 0 => acq.ei[i] = Num(0)

ScenarioA == <<10, 12, 50, 51, 90>>
ScenarioB == <<10, 50, 51, 89, 90>>

\* exp(a.num / a.den) < exp(b.num / b.den): exp is strictly increasing
POULess(a, b) ==
    a.k = "exp" /\ b.k = "exp" /\ a.num * b.den < b.num * a.den

\* C4 as stated: the POU a fit computes for y = [0.10, 0.12, 0.50, 0.51, 0.90]
\* is strictly less than the one it computes for [0.10, 0.50, 0.51, 0.89, 0.90].
C4_ScenarioStrictlyLess ==
    (lastFit = "ok" /\ y = ScenarioA)
        => POULess(POU, exp_mean(velocities(top_y(ScenarioB))))

\* C4, amended: for both histories the velocities sum to 0.80 over four
\* steps, so both fits store the same POU, exp(-100 * 0.20) = exp(-20).
C4_ScenarioEqualPOU ==
    (lastFit = "ok" /\ y \in {ScenarioA, ScenarioB})
        => /\ POU.k = "exp"
           /\ POU.num = -20 * POU.den
           /\ ~POULess(POU, exp_mean(velocities(top_y(ScenarioB))))
           /\ ~POULess(exp_mean(velocities(top_y(ScenarioB))), POU)

\* C4: the velocity tuner fitted on the first history of the scenario
C4_Witness == lastFit = "ok" /\ y = ScenarioA /\ POU.k = "exp" /\ r_minimum <= 5

\* C5: in the Matern variant every surrogate that fit has trained uses the
\* Matern 5/2 kernel chosen at construction.
C5_MaternKernelKept ==
    (variant = "GPMatern52Ei" /\ gp.fitted) => gp.kernel = "Matern52"

\* C6: a fit with len(X) # len(y) raises, for every variant and whatever the
\* two lengths are relative to r_minimum, and leaves the stored history, the
\* surrogate and POU as they were.
C6_MismatchFailsFast ==
    [][(out'.op = "fit" /\ out'.nX # out'.nY)
          => /\ out'.exc # "none"
             /\ X' = X
             /\ y' = y
             /\ gp' = gp
             /\ POU' = POU]_vars

\* the first index of the largest score of a non-empty sequence of integers
FirstMaxIndex(m) ==
    CHOOSE i \in 1 .. Len(m) :
        /\ \A j \in 1 .. Len(m) : m[j] <= m[i]
        /\ \A j \in 1 .. i - 1 : m[j] < m[i]

\* C7: for every array shape predict can return, (n, 2), (n, 1) or 1-D, the
\* select of every variant returns an index in 0 .. n-1 without raising, and
\* on a fallback shape it is the first index of the largest score.
C7_SelectReturnsValidIndex ==
    acq.phase = "done"
        => /\ acq.exc = "none"
           /\ acq.idx \in 0 .. Len(acq.preds.mu) - 1
           /\ acq.preds.cols = 1 => acq.idx = FirstMaxIndex(acq.preds.mu) - 1

\* C8: a predict or _acquire call, on the surrogate path or on the fallback
\* path, leaves X, y, the surrogate and POU as they were: only fit changes
\* the trained state.
C8_OnlyFitChangesTrainedState ==
    [][out'.op \in {"predict", "acquire"}
          => (X' = X /\ y' = y /\ gp' = gp /\ POU' = POU)]_vars

\* C8: a select that has followed a predict on the surrogate path
C8_Witness ==
    /\ out.op = "acquire"
    /\ out.res.path = "surrogate"
    /\ gp.fitted
    /\ Len(X) >= r_minimum

\* the scores POU is computed from are all equal
TopScoresAllEqual == \A a, b \in Range(top_y(y)) : a = b

\* C9: in the velocity variant a predict returns the uniform selector's output
\* exactly when its draw u is below POU or the last fit was deficient, and the
\* surrogate's (mean, stdev) array otherwise; after a deficient fit POU is 0;
\* after a fit whose top N_BEST_Y scores are all equal POU is 1 and every
\* predict returns the uniform selector's output.
C9_VelocityPredict ==
    (IsVelocity /\ LastFitWellFormed)
        => /\ (out.op = "predict" /\ out.exc = "none")
                => /\ out.res.path = "uniform"
                        <=> (RandomLess(out.u, POU) \/ Len(X) < r_minimum)
                   /\ out.res.path # "uniform"
                        => (out.res.path = "surrogate" /\ out.res.cols = 2)
           /\ Len(y) < r_minimum => POU = PZero
           /\ (Len(y) >= r_minimum /\ TopScoresAllEqual)
                => /\ POU.k = "exp" /\ POU.num = 0
                   /\ out.op = "predict" => out.res.path = "uniform"

\* C10: when the last fit has returned and a predict takes the surrogate
\* path, the engine it queries has been trained by that fit on exactly the
\* stored X and y, and the best score an EI select then uses is the maximum
\* of that y.
C10_SurrogateIsCurrent ==
    (lastFit = "ok" /\ out.op \in {"predict", "acquire"} /\ out.exc = "none"
        /\ out.res.path = "surrogate")
        => /\ gp.fitted
           /\ gp.X = X
           /\ gp.y = y
           /\ gp.y # <<>>
           /\ (out.op = "acquire" /\ variant # "GP") => out.ybest = SeqMax(gp.y)

\* C10: an EI select on the surrogate path
C10_Witness ==
    /\ out.op = "acquire"
    /\ out.exc = "none"
    /\ out.res.path = "surrogate"
    /\ lastFit = "ok"
    /\ variant = "GPEi"
    /\ out.ybest = SeqMax(y)

====
